---- MODULE Spec2Model ----
(***************************************************************************)
(* Model of wayback.py: the link-discovery and convergent-export engine    *)
(* that mirrors wiki.bash-hackers.org from the Wayback Machine.            *)
(*                                                                         *)
(* A filesystem path is a sequence of name segments (pathlib parts); the   *)
(* working directory is the empty sequence.  The tree `fs` maps every      *)
(* existing path to a node: a directory, a regular file with its content,  *)
(* or a symbolic link.  The archive is an external function of the         *)
(* request; `archive` records the replies it has given so far, so that the *)
(* same request gets the same reply for the whole session.                 *)
(***************************************************************************)
EXTENDS Integers, Sequences, FiniteSets, TLC

VARIABLES
    fs,          \* the tree under the working directory: path -> node
    archive,     \* replies of the archive so far: <<url_suffix, path>> -> reply
    driver,      \* the driver being run: "none", "HTML" or "MD"
    self,        \* what HTML.export_all received as self
    at,          \* position of control inside the driver
    pass,        \* number of export() calls started by this export_all
    todo,        \* rest of the pass's `unexported` dict, in iteration order
    start_file,  \* value returned by the seeding export_path
    err,         \* the uncaught exception, once one was raised
    run,         \* number of export_all calls made in this session
    last,        \* locals of the last export_path call of this pass (or the seeding one)
    hist,        \* observations of this run, read only by the properties
    document,    \* the document handed to an extractor on its own
    found        \* what the extractor returned for it

vars == <<fs, archive, driver, self, at, pass, todo, start_file, err, run, last, hist,
          document, found>>

-----------------------------------------------------------------------------
(* Bounds of the model *)

\* number of links in all the documents the archive serves in one session
MaxLinks == 3
\* number of requests of one session the archive answers irregularly
MaxFaults == 1
\* number of export_all calls made in one session on the same tree
MaxRuns == 2

(* Program constants *)

\* HTML.export_all: range(5)
HTML_PASSES == 5
\* MD.export_all: two MD.export() calls
MD_PASSES == 2
\* HTML.export: time.sleep(1)
HTML_SLEEP == 1
\* MD.export: time.sleep(2)
MD_SLEEP == 2
\* get_url: int(response.get('status')) == 200
HTTP_OK == 200

-----------------------------------------------------------------------------
(* Paths *)

NoSuffix == ""
EditSuffix == "?do=edit"

Root == << >>
\* Python's None where a path is expected, and a value that is not None
None == [some |-> FALSE, v |-> Root]
Some(v) == [some |-> TRUE, v |-> v]
P_start == <<"start">>
P_ab == <<"a", "b">>
P_abc == <<"a", "b", "c">>
P_dead_html == <<"dict", "start">>
P_dead_md == <<"dict", "terms", "file">>
P_export == <<"_export", "x">>
P_index == <<"index.html">>
\* a page below the start page: href="/start/x"
P_start_x == <<"start", "x">>

\* HTML.DEAD_LINKS (the members the documents of this model can reference)
HTML_DEAD_LINKS == {P_dead_html}
\* MD.DEAD_LINKS (the members the documents of this model can reference)
MD_DEAD_LINKS == {P_dead_md}

\* the logical paths, other than the start page, a fetched structural document can
\* reference
HTML_TARGETS == {P_ab, P_abc, P_dead_html, P_export, P_start_x}
\* the logical paths, other than the start page, a fetched content document can
\* reference
MD_TARGETS == {P_ab, P_abc, P_dead_md, P_export}

\* pathlib: the anchor of an absolute path, its first part
Anchors == {"/", "//"}
\* pathlib: file.parent, for a path that has a name
Parent(p) == IF p = Root THEN Root ELSE SubSeq(p, 1, Len(p) - 1)
\* pathlib: file.name
Name(p) == IF p = Root THEN "" ELSE p[Len(p)]
\* the paths without a name: '.' and the anchors
Tops == {Root} \cup {<<a>> : a \in Anchors}
\* the filesystem root and the ancestors of the working directory: directories that
\* exist whatever the tree under the working directory holds
Outer(p) == p # Root /\ \A i \in DOMAIN p : p[i] \in Anchors \cup {".."}
\* export_path: file.parent / f'{file.name}.{file_suffix}'
WithSuffix(p, file_suffix) == Parent(p) \o <<Name(p) \o "." \o file_suffix>>

\* the names of this model that carry a suffix
DottedNames == {"index.html"} \cup {Name(WithSuffix(p, "md")) : p \in MD_TARGETS \cup {P_start}}
\* pathlib: file.suffix is non-empty ('.' in file.name for the names of the model)
HasSuffix(name) == name \in DottedNames
\* pathlib: rglob('*.md')
IsMdName(name) == name \in {Name(WithSuffix(p, "md")) : p \in MD_TARGETS \cup {P_start}}
\* pathlib: file.stem, the name without its last suffix
Stem(name) ==
    CASE name = "index.html" -> "index"
      [] IsMdName(name) ->
             Name(CHOOSE p \in MD_TARGETS \cup {P_start} : name = Name(WithSuffix(p, "md")))
      [] OTHER -> name

\* code-point order of the names of the model, as str.__lt__ orders them
NameOrder ==
    << "_b", "_export", "_start", "a", "b", "b.md", "c", "c.md", "dict", "file", "file.md",
       "index.html", "start", "start.md", "terms", "x", "x.md" >>
NameRank(n) == CHOOSE i \in 1..Len(NameOrder) : NameOrder[i] = n
\* pathlib: PurePath.__lt__, the comparison of the parts lists
RECURSIVE PathLess(_, _)
PathLess(p, q) ==
    IF q = Root THEN FALSE
    ELSE IF p = Root THEN TRUE
    ELSE IF Head(p) # Head(q) THEN NameRank(Head(p)) < NameRank(Head(q))
    ELSE PathLess(Tail(p), Tail(q))

\* sorted(...) of a set of paths
RECURSIVE Sorted(_)
Sorted(S) ==
    IF S = {} THEN << >>
    ELSE LET m == CHOOSE x \in S : \A y \in S \ {x} : PathLess(x, y)
         IN  <<m>> \o Sorted(S \ {m})

-----------------------------------------------------------------------------
(* The tree *)

\* a document: the page it is a capture of, the view requested, the paths it
\* references, the state of its page-tools block, and its shape (wrap): "none" for
\* a structural document; for the edit view "one" (the markup in one textarea),
\* "full" (no textarea with text) or "two" (two textareas); "raw" for the markup
\* taken out of the textarea
Doc(page, sfx, links, tools, wrap) ==
    [page |-> page, sfx |-> sfx, links |-> links, tools |-> tools, wrap |-> wrap]
NoDoc == Doc(Root, NoSuffix, {}, "none", "none")

\* Python's None where a body is expected
NoBody == [some |-> FALSE, v |-> NoDoc]

Dir == [t |-> "dir", c |-> NoDoc, to |-> Root]
File(c) == [t |-> "file", c |-> c, to |-> Root]
Link(to) == [t |-> "link", c |-> NoDoc, to |-> to]

\* pathlib: Path.exists(), following a symbolic link
Exists(f, p) ==
    \/ p = Root
    \/ Outer(p)
    \/ /\ p \in DOMAIN f
       /\ f[p].t = "link" => f[p].to \in DOMAIN f
\* pathlib: Path.is_file(), following a symbolic link
IsFile(f, p) ==
    /\ p \in DOMAIN f
    /\ \/ f[p].t = "file"
       \/ f[p].t = "link" /\ f[p].to \in DOMAIN f /\ f[f[p].to].t = "file"
\* pathlib: Path.is_dir()
IsDir(f, p) == p = Root \/ Outer(p) \/ (p \in DOMAIN f /\ f[p].t = "dir")

\* the tree f with path p bound to node n
Put(f, p, n) == [q \in DOMAIN f \cup {p} |-> IF q = p THEN n ELSE f[q]]
\* the tree f without path p
Drop(f, p) == [q \in DOMAIN f \ {p} |-> f[q]]

\* the proper ancestors of p below the working directory
Ancestors(p) == {SubSeq(p, 1, i) : i \in 1..(Len(p) - 1)}

-----------------------------------------------------------------------------
(* The archive *)

\* what the archive can answer to the availability query for `path` (with the url
\* suffix sfx) and to the fetch of the replay url:
\*   net       the availability endpoint could be reached
\*   closest   archived_snapshots.closest is present
\*   status    the snapshot's status
\*   fetch     "ok", "urlerror" (urlopen raised URLError) or "empty" (empty body)
\*   body      the document served
Reply(net, closest, status, fetch, body) ==
    [net |-> net, closest |-> closest, status |-> status, fetch |-> fetch, body |-> body]

\* the replies that serve no document
Failures ==
    {Reply(FALSE, FALSE, 0, "urlerror", NoDoc),
     Reply(TRUE, FALSE, 0, "urlerror", NoDoc),
     Reply(TRUE, TRUE, 404, "urlerror", NoDoc),
     Reply(TRUE, TRUE, HTTP_OK, "urlerror", NoDoc),
     Reply(TRUE, TRUE, HTTP_OK, "empty", NoDoc)}

\* a reply is regular when it serves a document and, for the edit view, the document
\* embeds the markup in exactly one textarea
Regular(reply) == reply.fetch = "ok" /\ reply.body.wrap \in {"none", "one"}

\* the links in the documents the archive has served, and its irregular replies
LinksServed(a) ==
    {x \in (DOMAIN a) \X (HTML_TARGETS \cup MD_TARGETS) : x[2] \in a[x[1]].body.links}
Irregular(a) == {k \in DOMAIN a : ~Regular(a[k])}

\* the sets of links a document served now can carry
LinkSets(targets) ==
    LET left == MaxLinks - Cardinality(LinksServed(archive))
    IN  {L \in SUBSET targets : Cardinality(L) <= left}

\* a structural document with links is a page and carries the page-tools block; one
\* without links is a plain resource.  The markup of the edit view is in its
\* textarea: an edit view that is not regular holds no bracket links
PageTools(L) == IF L = {} THEN "none" ELSE "live"

Replies(path, sfx) ==
    (IF sfx = EditSuffix
     THEN {Reply(TRUE, TRUE, HTTP_OK, "ok", Doc(path, sfx, L, "none", "one")) :
               L \in LinkSets(MD_TARGETS)}
     ELSE {Reply(TRUE, TRUE, HTTP_OK, "ok", Doc(path, sfx, L, PageTools(L), "none")) :
               L \in LinkSets(HTML_TARGETS)})
    \cup
    (IF Cardinality(Irregular(archive)) < MaxFaults
     THEN Failures \cup
          (IF sfx = EditSuffix
           THEN {Reply(TRUE, TRUE, HTTP_OK, "ok", Doc(path, sfx, {}, "none", w)) :
                     w \in {"full", "two"}}
           ELSE {})
     ELSE {})

\* the archive answers the same request the same way for the whole session
Answers(path, sfx) ==
    IF <<sfx, path>> \in DOMAIN archive THEN {archive[<<sfx, path>>]} ELSE Replies(path, sfx)
Record(path, sfx, reply) ==
    [k \in DOMAIN archive \cup {<<sfx, path>>} |->
        IF k = <<sfx, path>> THEN reply ELSE archive[k]]

\* a replay url: the capture of path with the suffix, and whether the id_ marker is set
Url(path, sfx, id_) == [path |-> path, sfx |-> sfx, id_ |-> id_]
\* Python's None where a url is expected
NoUrl == [some |-> FALSE, v |-> Url(Root, NoSuffix, FALSE)]
\* insert_id_
insert_id_(url) == [url EXCEPT !.id_ = TRUE]

\* get_url: [raised |-> an exception left the function, url |-> the value returned]
get_url(path, url_suffix, reply) ==
    IF ~reply.net THEN [raised |-> TRUE, url |-> NoUrl]
    ELSE IF reply.closest /\ reply.status = HTTP_OK
         THEN [raised |-> FALSE, url |-> Some(insert_id_(Url(path, url_suffix, FALSE)))]
         ELSE [raised |-> FALSE, url |-> NoUrl]

\* get_response without its try/except: the URLError leaves the function
get_response_uncaught(url, reply) ==
    IF reply.fetch = "ok" THEN [raised |-> FALSE, body |-> Some(reply.body)]
    ELSE [raised |-> reply.fetch = "urlerror", body |-> NoBody]

\* get_response: [raised |-> an exception left the function, body |-> the value
\* returned]; the URLError is caught and logged and None returned, and an empty
\* body comes back as the empty string, which is falsy too
get_response(url, reply) ==
    IF reply.fetch = "ok" THEN [raised |-> FALSE, body |-> Some(reply.body)]
    ELSE [raised |-> FALSE, body |-> NoBody]

\* MD.get_data: [raised |-> the assertion failed, text |-> the value returned]
MD_get_data(response) ==
    CASE response.wrap = "one" -> [raised |-> FALSE, text |-> [response EXCEPT !.wrap = "raw"]]
      [] response.wrap = "two" -> [raised |-> TRUE, text |-> response]
      [] OTHER -> [raised |-> FALSE, text |-> response]

-----------------------------------------------------------------------------
(* The materializer *)

\* rename_if_collision: [fs |-> the tree after it, file |-> the path it returns,
\* err |-> the exception raised, "" when none]
rename_if_collision(f, file) ==
    IF IsFile(f, Parent(file))
    THEN LET target == Parent(Parent(file)) \o <<"_" \o Stem(Name(Parent(file)))>>
         IN  IF IsDir(f, target)
             THEN [fs |-> f, file |-> file, err |-> "IsADirectoryError"]
             ELSE [fs |-> Put(Drop(f, Parent(file)), target, f[Parent(file)]),
                   file |-> target, err |-> ""]
    ELSE [fs |-> f, file |-> file, err |-> ""]

\* pathlib: d.mkdir(exist_ok=True, parents=True)
mkdir_parents(f, d) ==
    IF \E q \in Ancestors(d) : q \in DOMAIN f /\ ~IsDir(f, q)
    THEN [fs |-> f, err |-> "NotADirectoryError"]
    ELSE IF d \in DOMAIN f /\ ~IsDir(f, d)
    THEN [fs |-> f, err |-> "FileExistsError"]
    ELSE [fs |-> [q \in DOMAIN f \cup {x \in Ancestors(d) \cup {d} : x # Root /\ ~Outer(x)} |->
                     IF q \in DOMAIN f THEN f[q] ELSE Dir],
          err |-> ""]

\* pathlib: file.write_text(response)
write_text(f, file, response) ==
    IF IsDir(f, file)
    THEN [fs |-> f, err |-> "IsADirectoryError"]
    ELSE [fs |-> Put(f, file, File(response)), err |-> ""]

\* write: [fs |-> the tree after it, file |-> the path written to, err |-> the exception]
write(f, file, response) ==
    LET r == rename_if_collision(f, file)
        m == mkdir_parents(r.fs, Parent(r.file))
        w == write_text(m.fs, r.file, response)
    IN  IF r.err # "" THEN [fs |-> r.fs, file |-> r.file, err |-> r.err]
        ELSE IF m.err # "" THEN [fs |-> m.fs, file |-> r.file, err |-> m.err]
        ELSE [fs |-> w.fs, file |-> r.file, err |-> w.err]

\* the file export_path computes from the logical path
TargetFile(path, file_suffix) ==
    IF file_suffix # "" THEN WithSuffix(path, file_suffix) ELSE path

\* export_path, given the archive's reply:
\*   fs       the tree after the call
\*   ret      the value returned (None after an error was logged)
\*   err      the exception that left the call, "" when none
\*   cause    why nothing was fetched: "url" (no url available), "response"
\*   wrote    the path the body was written to, None when nothing was written
\*   body     the body handed to write
export_path(f, path, url_suffix, file_suffix, reply) ==
    LET u == get_url(path, url_suffix, reply)
        got == get_response(u.url.v, reply)
        response == got.body
        data == IF file_suffix = "md" THEN MD_get_data(response.v)
                ELSE [raised |-> FALSE, text |-> response.v]
        file == TargetFile(path, file_suffix)
        w == write(f, file, data.text)
        quiet == [fs |-> f, ret |-> None, err |-> "", cause |-> "", wrote |-> None,
                  body |-> NoBody]
    IN  IF u.raised THEN [quiet EXCEPT !.err = "URLError"]
        ELSE IF ~u.url.some THEN [quiet EXCEPT !.cause = "url"]
        ELSE IF got.raised THEN [quiet EXCEPT !.err = "URLError"]
        ELSE IF ~response.some THEN [quiet EXCEPT !.cause = "response"]
        ELSE IF data.raised THEN [quiet EXCEPT !.err = "AssertionError"]
        ELSE IF w.err # ""
             THEN [fs |-> w.fs, ret |-> None, err |-> w.err, cause |-> "", wrote |-> None,
                   body |-> Some(data.text)]
             ELSE [fs |-> w.fs, ret |-> Some(file), err |-> "", cause |-> "",
                   wrote |-> Some(w.file), body |-> Some(data.text)]

\* the regular files and links of the tree: the materialized nodes
Nodes(f) == {q \in DOMAIN f : f[q].t # "dir"}

\* the locals of an export_path call, as the properties read them:
\*   existed  the target file was a materialized node when the call began
\*   parent   the content of the target's parent when it was a regular file
Call(f, path, url_suffix, file_suffix, reply, r) ==
    [path |-> path, sfx |-> url_suffix, file |-> TargetFile(path, file_suffix),
     existed |-> TargetFile(path, file_suffix) \in Nodes(f),
     parent |-> IF IsFile(f, Parent(TargetFile(path, file_suffix)))
                THEN Some(f[Parent(TargetFile(path, file_suffix))].c) ELSE NoBody,
     reply |-> reply, ret |-> r.ret, err |-> r.err, cause |-> r.cause,
     wrote |-> r.wrote, body |-> r.body]
NoCall ==
    [path |-> Root, sfx |-> NoSuffix, file |-> Root, existed |-> FALSE, parent |-> NoBody,
     reply |-> Reply(FALSE, FALSE, 0, "urlerror", NoDoc), ret |-> None, err |-> "",
     cause |-> "", wrote |-> None, body |-> NoBody]

-----------------------------------------------------------------------------
(* The extractors, as the drivers use them *)

\* the content read_text() returns for a regular file or a link to one
Content(f, file) == IF f[file].t = "link" THEN f[f[file].to].c ELSE f[file].c

\* HTML.get_paths: the root-relative href and src values of the document, leading slash
\* stripped; a document of the edit view carries none in this model
HTML_get_paths(f, file) ==
    IF Content(f, file).sfx = NoSuffix THEN Content(f, file).links ELSE {}

\* MD.get_paths: the bracket-link matches of the text, ':' replaced by '/'
MD_get_paths(f, file) == Content(f, file).links

\* HTML.export: path.startswith('_export')
StartsWithExport(path) == path # Root /\ Head(path) = "_export"

\* HTML.export: the files rglob('*') yields that are regular files without a suffix, sorted
HTML_file_paths(f) == Sorted({q \in DOMAIN f : IsFile(f, q) /\ ~HasSuffix(Name(q))})

\* MD.export: the paths rglob('*.md') yields
MD_files(f) == {q \in DOMAIN f : IsMdName(Name(q))}

\* HTML.export: the paths of one file that go into `unexported`
HTML_missing(f, file) ==
    {path \in HTML_get_paths(f, file) : ~Exists(f, path) /\ ~StartsWithExport(path)}

\* MD.export: the paths of one file that go into `unexported`
MD_missing(f, file) ==
    {path \in MD_get_paths(f, file) : ~Exists(f, WithSuffix(path, "md"))}

\* the keys of a dict comprehension: missing[i] are the paths the i-th file adds; a
\* path keeps the place of its first insertion, so each file contributes the paths
\* that no earlier file added, as a sequence of non-empty groups; the iteration
\* order inside one group is that of a set or of the text
RECURSIVE DictKeys(_, _)
DictKeys(missing, seen) ==
    IF missing = << >> THEN << >>
    ELSE (IF Head(missing) \ seen = {} THEN << >> ELSE <<Head(missing) \ seen>>)
         \o DictKeys(Tail(missing), seen \cup Head(missing))

\* the same comprehension building a list of (path, file) pairs instead of a dict: a
\* path that several files reference is kept once per file
RECURSIVE ListKeys(_)
ListKeys(missing) ==
    IF missing = << >> THEN << >>
    ELSE (IF Head(missing) = {} THEN << >> ELSE <<Head(missing)>>)
         \o ListKeys(Tail(missing))
HTML_unexported_list(f) ==
    ListKeys([i \in DOMAIN HTML_file_paths(f) |-> HTML_missing(f, HTML_file_paths(f)[i])])

\* HTML.export listing nothing in the first pass of a run: its frontier would not be
\* a function of the tree alone
HTML_unexported_late(f) ==
    IF pass = 0 THEN << >>
    ELSE DictKeys([i \in DOMAIN HTML_file_paths(f) |-> HTML_missing(f, HTML_file_paths(f)[i])], {})

\* HTML.export: unexported
HTML_unexported(f) ==
    DictKeys([i \in DOMAIN HTML_file_paths(f) |-> HTML_missing(f, HTML_file_paths(f)[i])], {})

\* the orders in which a directory walk can yield a set of files
Orders(S) == {o \in [1..Cardinality(S) -> S] : \A x \in S : \E i \in DOMAIN o : o[i] = x}

\* MD.export: unexported, for every order in which rglob can yield the files
MD_unexported(f) ==
    {DictKeys([i \in DOMAIN o |-> MD_missing(f, o[i])], {}) : o \in Orders(MD_files(f))}

\* the paths still in the rest of a dict
Keys(groups) == UNION {groups[i] : i \in DOMAIN groups}
\* the rest of the dict after the loop took path from its first group
Rest(groups, path) ==
    IF Head(groups) = {path} THEN Tail(groups)
    ELSE <<Head(groups) \ {path}>> \o Tail(groups)

-----------------------------------------------------------------------------
(* The extractors on the text of a document *)

\* A text is a sequence of pieces, each a string, standing for their concatenation.
\* A piece is a separator or a word of letters, and no word but "http" begins with
\* 'h', so a test on the characters of a text is a test on its pieces.

\* length of the texts of content documents
MaxText == 5
\* length of the attribute values of structural documents
MaxValue == 5

\* the pieces of a content document: the link brackets, the namespace and path
\* separators, and words
Words == {"http", "ftp", "a"}
TextPieces == {"[[", "]]", ":", "/"} \cup Words
\* the words of the spec's two examples
ExampleWords == {"commands", "builtin", "echo", "example", "com"}
\* the pieces of an attribute value
ValuePieces == {"/", "..", "a", "#", "?"}

\* the sequences over S of length at most n
SeqsUpTo(S, n) == UNION {[1..k -> S] : k \in 0..n}

\* str.join('', pieces)
RECURSIVE StrJoin(_)
StrJoin(t) == IF t = << >> THEN "" ELSE Head(t) \o StrJoin(Tail(t))

\* the elements of a list
Range(t) == {t[i] : i \in DOMAIN t}

\* the longest prefix of t whose pieces satisfy the character class [:\/\-\w]
RECURSIVE ClassRun(_)
ClassRun(t) ==
    IF t = << >> \/ Head(t) \notin {":", "/", "-"} \cup Words \cup ExampleWords THEN << >>
    ELSE <<Head(t)>> \o ClassRun(Tail(t))

\* MD.get_paths: re.findall(r'\[\[([:\/\-\w]+)', data): the groups of the
\* non-overlapping matches, left to right
RECURSIVE findall(_)
findall(t) ==
    IF t = << >> THEN << >>
    ELSE IF Head(t) = "[[" /\ ClassRun(Tail(t)) # << >>
         THEN <<ClassRun(Tail(t))>>
              \o findall(SubSeq(t, Len(ClassRun(Tail(t))) + 2, Len(t)))
         ELSE findall(Tail(t))

\* MD.get_paths: match.startswith('http')
startswith_http(match) == match # << >> /\ Head(match) = "http"

\* MD.get_paths: match.replace(':', '/')
replace_colon(match) == [i \in DOMAIN match |-> IF match[i] = ":" THEN "/" ELSE match[i]]

\* MD.get_paths on the text of a file: the list comprehension
MD_get_paths_of(text) ==
    LET matches == findall(text)
        keep == SelectSeq(matches, LAMBDA m : ~startswith_http(m))
    IN  [i \in DOMAIN keep |-> replace_colon(keep[i])]

\* an element of a structural document with one attribute
Element(tag, attr, value) == [tag |-> tag, attr |-> attr, value |-> value]
\* the tag and attribute pairs of the elements of a document: the four the selectors
\* of HTML.get_paths match, and two they do not
Attributes ==
    {<<"a", "href">>, <<"link", "href">>, <<"script", "src">>, <<"img", "src">>,
     <<"img", "href">>, <<"div", "href">>}
\* HTML.get_paths: cssselect('a[href]'), 'link[href]', 'script[src]', 'img[src]'
cssselect(e) ==
    <<e.tag, e.attr>> \in
        {<<"a", "href">>, <<"link", "href">>, <<"script", "src">>, <<"img", "src">>}

\* the prefix of t before the first piece in S, and the rest from that piece on
RECURSIVE Before(_, _)
Before(t, S) ==
    IF t = << >> \/ Head(t) \in S THEN << >> ELSE <<Head(t)>> \o Before(Tail(t), S)
From(t, S) == SubSeq(t, Len(Before(t, S)) + 1, Len(t))

\* urllib.parse.urlparse(value).path for a value without a scheme: a value that
\* begins with '//' names a host, which runs up to the next '/', '?' or '#'; the path
\* is what follows, up to the first '?' or '#'
urlparse_path(value) ==
    LET rest == IF Len(value) >= 2 /\ value[1] = "/" /\ value[2] = "/"
                THEN From(SubSeq(value, 3, Len(value)), {"/", "?", "#"})
                ELSE value
    IN  Before(rest, {"?", "#"})

\* str.lstrip('/')
RECURSIVE lstrip(_)
lstrip(t) == IF t # << >> /\ Head(t) = "/" THEN lstrip(Tail(t)) ELSE t

\* HTML.get_paths on the parsed document: href | src
HTML_get_paths_of(elems) ==
    {lstrip(urlparse_path(elems[i].value)) :
        i \in {j \in DOMAIN elems :
                  /\ cssselect(elems[j])
                  /\ elems[j].value # << >> /\ Head(elems[j].value) = "/"}}

\* the names between the slashes of a path string, '' and '.' dropped as pathlib does
RECURSIVE Segments(_)
Segments(t) ==
    IF t = << >> THEN << >>
    ELSE LET name == StrJoin(Before(t, {"/"}))
             rest == From(t, {"/"})
         IN  (IF name \in {"", "."} THEN << >> ELSE <<name>>)
             \o (IF rest = << >> THEN << >> ELSE Segments(Tail(rest)))

\* pathlib.Path(string): the parts; exactly two leading slashes make the anchor '//',
\* one or more than two the anchor '/'
Path(t) ==
    (IF t = << >> \/ Head(t) # "/" THEN << >>
     ELSE IF Len(t) >= 2 /\ t[2] = "/" /\ ~(Len(t) >= 3 /\ t[3] = "/") THEN <<"//">>
     ELSE <<"/">>)
    \o Segments(t)

\* the document handed to an extractor: the text of a content document or the
\* elements of a structural one
Data(kind, text, elems) == [kind |-> kind, text |-> text, elems |-> elems]
NoData == Data("none", << >>, << >>)
\* the documents of the spec's examples
Example_echo == <<"[[", "commands", ":", "builtin", ":", "echo", "]]">>
Example_http == <<"[[", "http", ":", "/", "/", "example", ".", "com", "]]">>
\* the documents an extractor is run on: the texts of at most n pieces and the spec's
\* examples, and the documents of one element with a value of at most m pieces
Inputs(n, m) ==
    {Data("md", t, << >>) : t \in SeqsUpTo(TextPieces, n) \cup {Example_echo, Example_http}}
    \cup {Data("html", << >>, <<Element(a[1], a[2], v)>>) :
              a \in Attributes, v \in SeqsUpTo(ValuePieces, m)}

\* what an extractor returned: the list of MD.get_paths or the set of HTML.get_paths
Found(list, set) == [done |-> TRUE, list |-> list, set |-> set]
NoFound == [done |-> FALSE, list |-> << >>, set |-> {}]

-----------------------------------------------------------------------------
(* Observations *)

\* what the properties remember of the session:
\*   unavail  <<pass, url_suffix, path>> of every export_path call of this run that
\*            logged an error and returned None (the seeding call is pass 0)
\*   tried    <<url_suffix, path>> of the export_path calls made so far in this pass
\*   empty    the first pass of this run whose `unexported` was empty, 0 when none yet
\*   sweeps   number of comment_out_menu_tools calls of this run that returned
\*   slept    the lengths of the pauses made in this pass
\*   prev     the driver of the previous completed run, "none" in the first
\*   before   the materialized nodes the previous completed run left
NewHist(prev, before) ==
    [unavail |-> {}, tried |-> {}, empty |-> 0, sweeps |-> 0,
     slept |-> << >>, prev |-> prev, before |-> before]

\* hist after an export_path call of the current pass (0: the seeding call)
Observe(h, n, url_suffix, path, r) ==
    [h EXCEPT !.tried = @ \cup {<<url_suffix, path>>},
              !.unavail = IF r.err = "" /\ ~r.ret.some
                          THEN @ \cup {<<n, url_suffix, path>>} ELSE @]

-----------------------------------------------------------------------------
(* The drivers *)

Init ==
    /\ fs = << >>
    /\ archive = << >>
    /\ driver = "none"
    /\ self = "none"
    /\ at = "idle"
    /\ pass = 0
    /\ todo = << >>
    /\ start_file = None
    /\ err = ""
    /\ run = 0
    /\ last = NoCall
    /\ hist = NewHist("none", {})
    /\ document = NoData
    /\ found = NoFound

\* an uncaught exception ends the process
Raise(e) == at' = "crashed" /\ err' = e

\* main: HTML.export_all() is called on the class without an argument, so the call
\* itself raises TypeError (missing 'self') before any statement of export_all runs
Main ==
    /\ at = "idle"
    /\ driver' = "HTML"
    /\ self' = "missing"
    /\ run' = run + 1
    /\ Raise("TypeError")
    /\ UNCHANGED <<document, found, fs, archive, pass, todo, start_file, last, hist>>

\* a call of a driver's export_all on the tree as it stands: the first of the
\* session, or the next after a call that returned; the drivers are called in the
\* order of main, HTML before MD, and either may be called again
Enter(d, s) ==
    /\ at \in {"idle", "done"}
    /\ run < MaxRuns
    /\ driver = "MD" => d = "MD"
    /\ driver' = d
    /\ self' = s
    /\ run' = run + 1
    /\ at' = "seed"
    /\ pass' = 0
    /\ todo' = << >>
    /\ start_file' = None
    /\ hist' = NewHist(driver, Nodes(fs))
    /\ last' = NoCall
    /\ UNCHANGED <<document, found, fs, archive, err>>

\* HTML.export_all(self), self the class or an instance of it
CallHTML == \E s \in {"class", "instance"} : Enter("HTML", s)

\* MD.export_all()
CallMD == Enter("MD", "none")

\* the loop of HTML.export_all one pass short
HTML_after_export_short(n) == IF n < HTML_PASSES - 1 THEN "scan" ELSE "sweep"

\* MD.export_all with one MD.export() call instead of two
MD_after_export_short(n) == IF n < MD_PASSES - 1 THEN "scan" ELSE "done"

\* where control goes when n passes are over: the next export() or what follows the loop
HTML_after_export(n) == IF n < HTML_PASSES THEN "scan" ELSE "sweep"
MD_after_export(n) == IF n < MD_PASSES THEN "scan" ELSE "done"

\* HTML.export_all with the sweep in the place of the loop
HTML_after_symlink_sweep == "sweep"

\* HTML.export_all: the statement after symlink_to is the loop of export() calls
HTML_after_symlink == HTML_after_export(0)

\* HTML.export_all: start_file = export_path(path='start')
HTMLSeed ==
    /\ driver = "HTML" /\ at = "seed"
    /\ \E reply \in Answers(P_start, NoSuffix) :
         LET r == export_path(fs, P_start, NoSuffix, "", reply)
         IN  /\ archive' = Record(P_start, NoSuffix, reply)
             /\ fs' = r.fs
             /\ last' = Call(fs, P_start, NoSuffix, "", reply, r)
             /\ hist' = Observe(hist, 0, NoSuffix, P_start, r)
             /\ start_file' = r.ret
             /\ IF r.err # "" THEN Raise(r.err)
                ELSE at' = "symlink" /\ err' = err
    /\ UNCHANGED <<document, found, driver, self, pass, todo, run>>

\* HTML.export_all: pathlib.Path('index.html').symlink_to(start_file)
Symlink ==
    /\ driver = "HTML" /\ at = "symlink"
    /\ IF ~start_file.some
       THEN Raise("TypeError") /\ fs' = fs
       ELSE IF P_index \in DOMAIN fs
       THEN Raise("FileExistsError") /\ fs' = fs
       ELSE /\ fs' = Put(fs, P_index, Link(start_file.v))
            /\ at' = HTML_after_symlink
            /\ err' = err
    /\ UNCHANGED <<document, found, archive, driver, self, pass, todo, start_file, run, last,
                   hist>>

\* HTML.export, up to the loop: the files are listed and `unexported` is built
HTMLScan ==
    /\ driver = "HTML" /\ at = "scan"
    /\ pass' = pass + 1
    /\ todo' = HTML_unexported(fs)
    /\ hist' = [hist EXCEPT !.tried = {}, !.slept = << >>,
                            !.empty = IF @ = 0 /\ todo' = << >> THEN pass' ELSE @]
    /\ at' = IF todo' = << >> THEN HTML_after_export(pass') ELSE "item"
    /\ last' = NoCall
    /\ UNCHANGED <<document, found, fs, archive, driver, self, start_file, err, run>>

\* HTML.export, one turn of the loop: export_path(path=path)
HTMLItem ==
    /\ driver = "HTML" /\ at = "item"
    /\ \E path \in Head(todo) : \E reply \in Answers(path, NoSuffix) :
         LET r == export_path(fs, path, NoSuffix, "", reply)
         IN  /\ archive' = Record(path, NoSuffix, reply)
             /\ fs' = r.fs
             /\ last' = Call(fs, path, NoSuffix, "", reply, r)
             /\ hist' = Observe(hist, pass, NoSuffix, path, r)
             /\ todo' = Rest(todo, path)
             /\ IF r.err # "" THEN Raise(r.err)
                ELSE at' = "sleep" /\ err' = err
    /\ UNCHANGED <<document, found, driver, self, pass, start_file, run>>

\* HTML.export with the turn ending without time.sleep: no pause is made
HTMLSleep_nopause ==
    /\ driver = "HTML" /\ at = "sleep"
    /\ at' = IF todo = << >> THEN HTML_after_export(pass) ELSE "item"
    /\ UNCHANGED <<document, found, fs, archive, driver, self, pass, todo, start_file, err, run,
                   last, hist>>

\* HTML.export, the end of a turn: time.sleep(1)
HTMLSleep ==
    /\ driver = "HTML" /\ at = "sleep"
    /\ hist' = [hist EXCEPT !.slept = Append(@, HTML_SLEEP)]
    /\ at' = IF todo = << >> THEN HTML_after_export(pass) ELSE "item"
    /\ UNCHANGED <<document, found, fs, archive, driver, self, pass, todo, start_file, err, run,
                   last>>

\* comment_out_menu_tools: every regular file without '.' in its name that holds the
\* page-tools markers (a "live" block has both) gets them rewritten
comment_out_menu_tools(f) ==
    [q \in DOMAIN f |->
        IF f[q].t = "file" /\ ~HasSuffix(Name(q)) /\ f[q].c.tools = "live"
        THEN File([f[q].c EXCEPT !.tools = "inert"])
        ELSE f[q]]

\* HTML.export_all: self.comment_out_menu_tools(); the function takes no parameter, so
\* the call through an instance raises TypeError
Sweep ==
    /\ driver = "HTML" /\ at = "sweep"
    /\ IF self = "instance"
       THEN Raise("TypeError") /\ fs' = fs /\ hist' = hist
       ELSE /\ fs' = comment_out_menu_tools(fs)
            /\ hist' = [hist EXCEPT !.sweeps = @ + 1]
            /\ at' = "done"
            /\ err' = err
    /\ UNCHANGED <<document, found, archive, driver, self, pass, todo, start_file, run, last>>

\* MD.export_all: start_file = export_path(path='start', url_suffix='?do=edit', file_suffix='md')
MDSeed ==
    /\ driver = "MD" /\ at = "seed"
    /\ \E reply \in Answers(P_start, EditSuffix) :
         LET r == export_path(fs, P_start, EditSuffix, "md", reply)
         IN  /\ archive' = Record(P_start, EditSuffix, reply)
             /\ fs' = r.fs
             /\ last' = Call(fs, P_start, EditSuffix, "md", reply, r)
             /\ hist' = Observe(hist, 0, EditSuffix, P_start, r)
             /\ start_file' = r.ret
             /\ IF r.err # "" THEN Raise(r.err)
                ELSE at' = MD_after_export(0) /\ err' = err
    /\ UNCHANGED <<document, found, driver, self, pass, todo, run>>

\* MD.export, up to the loop; with nothing to export it returns after a warning
MDScan ==
    /\ driver = "MD" /\ at = "scan"
    /\ pass' = pass + 1
    /\ todo' \in MD_unexported(fs)
    /\ hist' = [hist EXCEPT !.tried = {}, !.slept = << >>,
                            !.empty = IF @ = 0 /\ todo' = << >> THEN pass' ELSE @]
    /\ at' = IF todo' = << >> THEN MD_after_export(pass') ELSE "item"
    /\ last' = NoCall
    /\ UNCHANGED <<document, found, fs, archive, driver, self, start_file, err, run>>

\* MD.export, one turn of the loop: export_path(path, '?do=edit', 'md')
MDItem ==
    /\ driver = "MD" /\ at = "item"
    /\ \E path \in Head(todo) : \E reply \in Answers(path, EditSuffix) :
         LET r == export_path(fs, path, EditSuffix, "md", reply)
         IN  /\ archive' = Record(path, EditSuffix, reply)
             /\ fs' = r.fs
             /\ last' = Call(fs, path, EditSuffix, "md", reply, r)
             /\ hist' = Observe(hist, pass, EditSuffix, path, r)
             /\ todo' = Rest(todo, path)
             /\ IF r.err # "" THEN Raise(r.err)
                ELSE at' = "sleep" /\ err' = err
    /\ UNCHANGED <<document, found, driver, self, pass, start_file, run>>

\* MD.export, the end of a turn: time.sleep(2)
MDSleep ==
    /\ driver = "MD" /\ at = "sleep"
    /\ hist' = [hist EXCEPT !.slept = Append(@, MD_SLEEP)]
    /\ at' = IF todo = << >> THEN MD_after_export(pass) ELSE "item"
    /\ UNCHANGED <<document, found, fs, archive, driver, self, pass, todo, start_file, err, run,
                   last>>

Next ==
    \/ Main
    \/ CallHTML
    \/ CallMD
    \/ HTMLSeed
    \/ Symlink
    \/ HTMLScan
    \/ HTMLItem
    \/ HTMLSleep
    \/ Sweep
    \/ MDSeed
    \/ MDScan
    \/ MDItem
    \/ MDSleep

Spec == Init /\ [][Next]_vars

-----------------------------------------------------------------------------
(* The extractors on their own: a document is read, and the paths it yields are
   handed to export_path as a pass does, on a tree that holds nothing yet *)

ExtractInit ==
    /\ fs = << >>
    /\ archive = << >>
    /\ driver = "none"
    /\ self = "none"
    /\ at = "idle"
    /\ pass = 0
    /\ todo = << >>
    /\ start_file = None
    /\ err = ""
    /\ run = 0
    /\ last = NoCall
    /\ hist = NewHist("none", {})
    /\ document \in Inputs(MaxText, MaxValue)
    /\ found = NoFound

\* MD.export: MD.get_paths(file) for a content document
MDRead ==
    /\ document.kind = "md" /\ ~found.done
    /\ found' = Found(MD_get_paths_of(document.text), {})
    /\ UNCHANGED <<fs, archive, driver, self, at, pass, todo, start_file, err, run, last,
                   hist, document>>

\* HTML.export: HTML.get_paths(file) for a structural document
HTMLRead ==
    /\ document.kind = "html" /\ ~found.done
    /\ found' = Found(<< >>, HTML_get_paths_of(document.elems))
    /\ UNCHANGED <<fs, archive, driver, self, at, pass, todo, start_file, err, run, last,
                   hist, document>>

\* MD.export: a path of the document that passes `not Path(f'{path}.md').exists()` is
\* handed to export_path(path, '?do=edit', 'md'); the archive serves the page.  The
\* turn for a path of separators only, which names the filesystem root, is left out
MDTurn ==
    /\ document.kind = "md" /\ found.done /\ at = "idle"
    /\ \E i \in DOMAIN found.list :
         LET path == found.list[i]
             reply == Reply(TRUE, TRUE, HTTP_OK, "ok",
                            Doc(Path(path), EditSuffix, {}, "none", "one"))
             r == export_path(fs, Path(path), EditSuffix, "md", reply)
         IN  /\ Path(path) \notin Tops
             /\ ~Exists(fs, Path(Append(path, ".md")))
             /\ fs' = r.fs
             /\ last' = Call(fs, Path(path), EditSuffix, "md", reply, r)
             /\ IF r.err # "" THEN Raise(r.err) ELSE UNCHANGED <<at, err>>
    /\ UNCHANGED <<archive, driver, self, pass, todo, start_file, run, hist, document, found>>

\* HTML.export: a path of the document that passes `not Path(path).exists()` and
\* `not path.startswith('_export')` is handed to export_path(path)
HTMLTurn ==
    /\ document.kind = "html" /\ found.done /\ at = "idle"
    /\ \E path \in found.set :
         LET reply == Reply(TRUE, TRUE, HTTP_OK, "ok",
                            Doc(Path(path), NoSuffix, {}, "none", "none"))
             r == export_path(fs, Path(path), NoSuffix, "", reply)
         IN  /\ ~Exists(fs, Path(path))
             /\ ~StartsWithExport(Path(path))
             /\ fs' = r.fs
             /\ last' = Call(fs, Path(path), NoSuffix, "", reply, r)
             /\ IF r.err # "" THEN Raise(r.err) ELSE UNCHANGED <<at, err>>
    /\ UNCHANGED <<archive, driver, self, pass, todo, start_file, run, hist, document, found>>

ExtractNext ==
    \/ MDRead
    \/ HTMLRead
    \/ MDTurn
    \/ HTMLTurn

Extraction == ExtractInit /\ [][ExtractNext]_vars

-----------------------------------------------------------------------------
(* Properties *)

\* the export_path call recorded in `last` was a turn of the current pass's loop and
\* has just returned
AfterItem == at = "sleep"

\* the export_path call recorded in `last` logged an error and returned None
Unavailable(c) == c.err = "" /\ ~c.ret.some

\* the dead-link set of a driver
DEAD_LINKS(d) == IF d = "HTML" THEN HTML_DEAD_LINKS ELSE MD_DEAD_LINKS

\* the path the collision rule is to move the parent of `file` to: a/b/c -> a/_b
Aside(file) == Parent(Parent(file)) \o <<"_" \o Name(Parent(file))>>

\* C1. Collision safety: when export_path has returned the path a/b/c and a regular
\* file with content X stood at a/b when it was called, then a/_b holds X and a/b/c
\* holds the fetched body Y, which was written nowhere else.
C1_CollisionSafety ==
    (AfterItem /\ last.ret.some /\ last.parent.some) =>
        /\ Aside(last.file) \in DOMAIN fs
        /\ fs[Aside(last.file)] = File(last.parent.v)
        /\ last.file \in DOMAIN fs
        /\ fs[last.file] = File(last.body.v)
        /\ last.wrote = Some(last.file)

\* C2. Dead-link exclusion: no path of the driver's dead-link set is materialized by
\* a pass (the claim says more: it is not even resolved or fetched).
C2_DeadLinkExclusion ==
    (AfterItem /\ last.wrote.some) => last.path \notin DEAD_LINKS(driver)

\* C3. No re-fetch of existing nodes: no export_path call (the seeding one or one of
\* a pass) is made for a path whose node exists on disk when the call begins.
C3_NoRefetch == ~last.existed

\* C4. Idempotence of convergence: a run of a driver on the tree left by a completed
\* run of the same driver creates no materialized node that run had not left.  (The
\* sessions in which a dead-link path was requested are left out, so that a
\* violation does not rest on the dead-link sets being ignored.)
C4_Idempotence ==
    (/\ run >= 2
     /\ hist.prev = driver
     /\ \A k \in DOMAIN archive : k[2] \notin HTML_DEAD_LINKS \cup MD_DEAD_LINKS)
    => Nodes(fs) \subseteq hist.before

\* the reply makes resolution or materialization signal Unavailable: no snapshot, a
\* snapshot that is not 200, a fetch failure or an empty body
SignalsUnavailable(reply) ==
    reply.net /\ (~reply.closest \/ reply.status # HTTP_OK \/ reply.fetch # "ok")

\* C5. Per-item recovery: when export_path of one path of a pass meets no snapshot,
\* a non-200 snapshot, a fetch failure or an empty body, it returns None, the tree
\* is left as it was, and the loop goes on: after the pause the next of the
\* remaining paths is taken, none of them dropped.
C5_PerItemRecovery ==
    [][ /\ (at = "item" /\ SignalsUnavailable(last'.reply)) =>
              /\ Unavailable(last')
              /\ fs' = fs
              /\ at' = "sleep"
              /\ Keys(todo') = Keys(todo) \ {last'.path}
        /\ (at = "sleep" /\ todo # << >>) => (at' = "item" /\ todo' = todo)
      ]_vars

\* a path of this pass signalled Unavailable and a later path of the same pass was
\* then materialized
C5_Witness ==
    /\ AfterItem
    /\ last.wrote.some
    /\ \E u \in hist.unavail : u[1] = pass

\* C6. The resolver returns None and does not raise when the endpoint returns no
\* snapshot, returns a snapshot whose status is not 200, or cannot be reached.
C6_ResolverNeverRaises ==
    (/\ last # NoCall
     /\ (~last.reply.net \/ ~last.reply.closest \/ last.reply.status # HTTP_OK))
    => /\ ~get_url(last.path, last.sfx, last.reply).raised
       /\ ~get_url(last.path, last.sfx, last.reply).url.some
       /\ last.err = ""

\* C7. No retry within a run: a path whose export_path call returned None in one
\* pass is not passed to export_path in a later pass of the same run.
C7_NoRetryInRun ==
    AfterItem =>
        ~\E u \in hist.unavail : u[1] < pass /\ <<u[2], u[3]>> = <<last.sfx, last.path>>

\* C7, amended. No retry within a pass: a path that export_path was called for in
\* this pass is not among the paths the pass has still to take.
C7_NoRetryInPass ==
    at \in {"item", "sleep"} => \A k \in hist.tried : k[2] \notin Keys(todo)

\* a path signalled Unavailable in the first pass and a later pass has called
\* export_path for it again
C7_Witness ==
    /\ AfterItem
    /\ pass >= 2
    /\ \E u \in hist.unavail : u[1] = 1 /\ <<u[2], u[3]>> \in hist.tried

\* C8. The process always completes: no run ends in an uncaught exception.
C8_AlwaysCompletes == at # "crashed"

\* C9. The structural driver stops at the first pass whose frontier is empty: no pass
\* is started after a pass that found nothing to export.
C9_StopsAtEmptyFrontier ==
    (driver = "HTML" /\ hist.empty # 0) => pass = hist.empty

\* C9, amended. The structural driver runs five passes, never more, and leaves the
\* loop only after the fifth, whether or not a pass found its frontier empty.
C9_FivePasses ==
    driver = "HTML" =>
        /\ pass <= HTML_PASSES
        /\ at \in {"sweep", "done"} => pass = HTML_PASSES
        /\ at = "scan" => pass < HTML_PASSES

\* a pass before the fifth found its frontier empty and the driver has run all five
C9_Witness ==
    driver = "HTML" /\ at = "done" /\ hist.empty \in 1..(HTML_PASSES - 1) /\ pass = HTML_PASSES

\* C10. The page-tools sweep happens before the structural driver's first pass: once
\* a pass has begun the sweep has been done.
C10_SweepBeforeFirstPass ==
    (driver = "HTML" /\ pass >= 1) => hist.sweeps = 1

\* C10, amended. The sweep happens at most once in a run of the structural driver, and
\* only after its fifth and last pass has finished; the run ends with it.
C10_SweepAfterLastPass ==
    driver = "HTML" =>
        /\ hist.sweeps <= 1
        /\ hist.sweeps = 1 => (pass = HTML_PASSES /\ at = "done")
        /\ at = "done" => hist.sweeps = 1

\* the sweep has been done and has rewritten the markers of a page
C10_Witness ==
    /\ driver = "HTML"
    /\ hist.sweeps = 1
    /\ \E q \in DOMAIN fs : fs[q].c.tools = "inert"

\* C11. The content driver starts two passes in every run, never more and, when the
\* run returns, never fewer: the count depends neither on what the seeding
\* export_path returned nor on whether the first pass found anything to export.
C11_TwoPasses ==
    driver = "MD" =>
        /\ pass <= MD_PASSES
        /\ at = "done" => pass = MD_PASSES
        /\ at = "scan" => pass < MD_PASSES
        /\ (at = "scan" /\ pass = 0) => hist.tried = {<<EditSuffix, P_start>>}

\* the seeding call returned None, the first pass found nothing to export, and the run
\* has still made its two passes
C11_Witness ==
    /\ driver = "MD" /\ at = "done"
    /\ ~start_file.some
    /\ hist.empty = 1
    /\ pass = MD_PASSES

\* the fixed pause of a driver's loop
Pause(d) == IF d = "HTML" THEN HTML_SLEEP ELSE MD_SLEEP

\* C12. Throttle ordering: inside a pass every export_path call of the loop is followed
\* by one pause of the driver's fixed length (1 for the structural driver, 2 for the
\* content driver) before the next call is made, also when the call returned None.
C12_ThrottleOrdering ==
    /\ at = "item" => Len(hist.slept) = Cardinality(hist.tried)
    /\ at = "sleep" => Len(hist.slept) + 1 = Cardinality(hist.tried)
    /\ at \in {"item", "sleep"} => \A i \in DOMAIN hist.slept : hist.slept[i] = Pause(driver)

\* the first path of a pass returned None, one pause was made, and export_path has been
\* called for the second path
C12_Witness ==
    /\ AfterItem
    /\ Cardinality(hist.tried) = 2
    /\ Len(hist.slept) = 1
    /\ \E u \in hist.unavail : u[1] = pass /\ u[3] # last.path

\* C14. Materializer postcondition: when export_path has returned a path (the seeding
\* call or a turn of a loop), a regular file stands at that path and holds the body
\* the call fetched (the extracted markup for the content kind).
C14_MaterializerPostcondition ==
    (at \in {"sleep", "symlink"} /\ last.ret.some) =>
        /\ IsFile(fs, last.ret.v)
        /\ Content(fs, last.ret.v) = last.body.v

\* the text the text-extraction rule is to keep of a fetched edit view: the text of
\* the textarea when there is exactly one with text, else the whole document
TextRule(doc) == IF doc.wrap = "one" THEN [doc EXCEPT !.wrap = "raw"] ELSE doc

\* C17. Text-extraction rule: for every edit view that was fetched, MD.get_data does
\* not fail, and the text handed to write is the textarea's text when the page holds
\* exactly one textarea with text and the whole document in every other case.
C17_TextExtractionRule ==
    (/\ last.sfx = EditSuffix
     /\ last.reply.net /\ last.reply.closest /\ last.reply.status = HTTP_OK
     /\ last.reply.fetch = "ok")
    => /\ last.err # "AssertionError"
       /\ last.body = Some(TextRule(last.reply.body))

\* C18. Fixed-point stability of the structural driver: after a pass of a run has found
\* nothing to export, every later pass of that run finds nothing either: it calls
\* export_path for no path, so the archive is not asked and the tree is not written.
C18_FixedPointStability ==
    [][ /\ (driver = "HTML" /\ hist.empty # 0 /\ at = "scan") =>
              /\ todo' = << >>
              /\ at' \notin {"item", "sleep"}
              /\ fs' = fs
              /\ archive' = archive
        /\ (driver' = "HTML" /\ hist'.empty # 0) => at' \notin {"item", "sleep"}
      ]_vars

\* pages were exported, then a pass found nothing to export, and a later pass of the
\* same run is about to list the tree again
C18_Witness ==
    /\ driver = "HTML" /\ at = "scan"
    /\ hist.empty >= 2
    /\ pass > hist.empty
    /\ \E q \in Nodes(fs) : q \notin {P_start, P_index}

\* C13. The alias of the start page: whenever HTML.export_all has returned, index.html
\* is a symbolic link at the root of the tree that points at the start page's file,
\* and that file exists.
C13_AliasToStartPage ==
    (driver = "HTML" /\ at = "done") =>
        /\ P_index \in DOMAIN fs
        /\ fs[P_index] = Link(P_start)
        /\ IsFile(fs, P_start)
        /\ fs[P_start].c.page = P_start

\* a match begins with a protocol scheme: a scheme word and ':'
Schemes == {"http", "ftp"}
BeginsWithScheme(match) == Len(match) >= 2 /\ match[1] \in Schemes /\ match[2] = ":"

\* C15. Cross-reference extraction: the paths MD.get_paths returns for a text are the
\* bracket-link matches with ':' replaced by '/', without the matches that begin
\* with a protocol scheme: no path that begins with a scheme is returned and no
\* other match is dropped.
C15_CrossReferenceExtraction ==
    (document.kind = "md" /\ found.done) =>
        Range(found.list) =
            {replace_colon(m) : m \in {x \in Range(findall(document.text)) : ~BeginsWithScheme(x)}}

\* a value names a host: it begins with '//' and a name
NamesHost(value) ==
    Len(value) >= 3 /\ value[1] = "/" /\ value[2] = "/" /\ value[3] \notin {"/", "?", "#"}

\* C16. Structural extraction: the paths HTML.get_paths returns for a document are the
\* url paths, leading slashes stripped, of the href of its a and link elements and the
\* src of its script and img elements that begin with a root-relative slash; a value
\* that names a host and a fragment-only value contribute no path.
C16_StructuralExtraction ==
    (document.kind = "html" /\ found.done) =>
        found.set \ {<< >>} =
            {lstrip(urlparse_path(document.elems[i].value)) :
                i \in {j \in DOMAIN document.elems :
                          /\ cssselect(document.elems[j])
                          /\ document.elems[j].value # << >>
                          /\ Head(document.elems[j].value) = "/"
                          /\ ~NamesHost(document.elems[j].value)}} \ {<< >>}

\* the path p, taken from directory depth d below the working directory, stays in
\* the tree under the working directory
RECURSIVE Within(_, _)
Within(p, d) ==
    IF p = << >> THEN TRUE
    ELSE IF Head(p) \in Anchors THEN FALSE
    ELSE IF Head(p) = ".." THEN d > 0 /\ Within(Tail(p), d - 1)
    ELSE Within(Tail(p), d + 1)

\* C19. Containment: every file that export_path has created, renamed or written for
\* a path an extractor returned lies in the tree under the working directory.
C19_Containment ==
    /\ \A q \in Nodes(fs) : Within(q, 0)
    /\ last.wrote.some => Within(last.wrote.v, 0)

====
